---- MODULE Spec2Model ----
(***************************************************************************)
(* Model of the action composites of py-async-await-actions:               *)
(*   code/action.py          the action contract                           *)
(*   code/bomb_actions.py    wait_action, the timed leaf action            *)
(*   code/sequence_action.py sequence_action, the sequential composite     *)
(*   code/set_action.py      set_action, the parallel composite            *)
(*   code/action_list.py     action_list, the wrapper of one sequence      *)
(* The interpreter is Python 3 (code/asyncio-example.py uses async/await), *)
(* so the builtin filter() returns a lazy iterator, not a list.            *)
(*                                                                         *)
(* Every host call (add_action, update, start, is_over) is one action of   *)
(* the model; the calls it makes on children, re-entrant calls included,   *)
(* are computed by operators that thread a record of the heap through     *)
(* the handler in program order.  An exception ends the handler at the     *)
(* point where it is raised and is recorded in exc: no composite has a     *)
(* try statement, so every operator leaves a heap that carries an          *)
(* exception as it is.                                                     *)
(***************************************************************************)
EXTENDS Integers, Sequences, FiniteSets, TLC

\* ---------------------------------------------------------------- bounds
MaxDur == 5
MaxDt == 4
MaxUpdates == 3
MaxSetUpdates == 2
MaxStarts == 2
MaxShortDur == 3
MaxFaultDur == 1
MaxLoopDur == 2

\* ------------------------------------------------------------- children
\* The action objects, in the order in which the host adds them.
HostOrder == <<"A", "B", "C">>
Actions == {HostOrder[i] : i \in 1..Len(HostOrder)}
None == "None"

Durations == 0..MaxDur
Dts == 1..MaxDt

\* end() hooks: no action adds anything from its end(), or one of the first
\* two adds the last action object to its own composite from its end(); the
\* host then leaves that object to the hook.
EndHooks ==
  {h \in [Actions -> {"C", None}] :
     /\ h["C"] = None
     /\ Cardinality({a \in Actions : h[a] # None}) <= 1}

Range(q) == {q[i] : i \in 1..Len(q)}

NoExc == "none"

\* A failing child: method m of action object a raises an exception of
\* class e whenever it is called.
NoFault == <<None, None, None>>
Errors == {"ChildError", "StopIteration"}
Faults == {"start", "update", "is_over", "end"} \X Actions \X Errors
NoOps == [m \in {"start", "update"} |-> 0]

VARIABLES
  driven,        \* what the host works with: "sequence", "set" or "list"
  fault,         \* the failing child method, or NoFault
  end_time,      \* wait_action.end_time of every action object
  on_end,        \* what each action object's end() adds to its composite
  current_time,  \* wait_action.current_time of every action object
  actions,       \* sequence_action.actions, the deque, front first
  set_actions,   \* set_action.actions: a list, or a filter iterator
  started,       \* set_action.started
  op,            \* the host's last call, <<method, action or None, dt>>
  nops,          \* the number of start and of update calls of the host
  exc,           \* the exception the last call raised, or NoExc
  calls,         \* the child-method calls made during the last call
  hist,          \* per action object, every method call it has received
  addOrder,      \* action objects in the order add_action appended them
  addedAt,       \* per appended object, the host calls completed by then
  endOrder       \* action objects in the order end() was called on them

vars == <<driven, fault, end_time, on_end, current_time, actions, set_actions, started,
          op, nops, exc, calls, hist, addOrder, addedAt, endOrder>>

\* ------------------------------------------------------------ the heap
\* The part of the state a handler reads and writes while it runs.
Heap ==
  [current_time |-> current_time, actions |-> actions,
   set_actions |-> set_actions, started |-> started,
   exc |-> NoExc, calls |-> <<>>, hist |-> hist,
   addOrder |-> addOrder, addedAt |-> addedAt, endOrder |-> endOrder]

Record(s, m, a, x) ==
  [s EXCEPT !.calls = Append(@, <<m, a, x>>),
            !.hist[a] = Append(@, <<m, x>>)]

Raised(s) == s.exc # NoExc

\* A call of method m of child a: it is made, and raises if it is the
\* failing one.
Call(s, m, a, x) ==
  IF Raised(s) THEN s
  ELSE IF fault[1] = m /\ fault[2] = a
         THEN [Record(s, m, a, x) EXCEPT !.exc = fault[3]]
         ELSE Record(s, m, a, x)

\* The bookkeeping of an append of a to a composite's collection.
Added(s, a) ==
  [s EXCEPT !.addOrder = Append(@, a), !.addedAt[a] = nops]

\* bomb_actions.wait_action
wait_start(s, a) ==
  LET s1 == Call(s, "start", a, 0)
  IN  IF Raised(s1) THEN s1 ELSE [s1 EXCEPT !.current_time[a] = 0]

wait_update(s, a, dt) ==
  LET s1 == Call(s, "update", a, dt)
  IN  IF Raised(s1) THEN s1 ELSE [s1 EXCEPT !.current_time[a] = @ + dt]

wait_is_over(s, a) == s.current_time[a] >= end_time[a]

\* the heap after a call of a.is_over(), which has no side effect
Asked(s, a) == Call(s, "is_over", a, 0)

\* sequence_action.add_action
sequence_add_action(s, a) ==
  LET s1 == [Added(s, a) EXCEPT !.actions = Append(@, a)]
  IN  IF Raised(s) THEN s
      ELSE IF Len(s1.actions) = 1
        THEN [s1 EXCEPT !.exc = "AttributeError"]  \* self.action
        ELSE s1

\* end() of a child of the sequential composite: action.end does nothing;
\* a child with an end hook adds its successor to the composite.
seq_child_end(s, a) ==
  LET s1 == [Call(s, "end", a, 0) EXCEPT !.endOrder = Append(@, a)]
  IN  IF Raised(s) THEN s
      ELSE IF on_end[a] = None THEN s1
      ELSE sequence_add_action(s1, on_end[a])

\* sequence_action.update, lines 24-34 and 46-56: pop the front, end it,
\* and start the new front; the loop goes on with the new front.
RECURSIVE sequence_update_loop(_, _, _)
sequence_pop_end_next(s, front, dt) ==
  LET s1 == [s EXCEPT !.actions = Tail(@)]
      s2 == seq_child_end(s1, front)
  IN  IF Raised(s) THEN s
      ELSE IF Raised(s2) THEN s2
      ELSE IF Len(s2.actions) = 0 THEN s2
      ELSE sequence_update_loop(wait_start(s2, Head(s2.actions)),
                                Head(s2.actions), dt)

\* The loop as it would be if a call handed dt to one child only: once a
\* child has consumed dt and finished, the next front is started and the
\* call returns.
sequence_update_loop_one_dt(s, front, dt) ==
  LET s1 == Asked(s, front)
  IN  IF Raised(s1) THEN s1
      ELSE IF wait_is_over(s1, front)
        THEN sequence_pop_end_next(s1, front, dt)
        ELSE LET s2 == wait_update(s1, front, dt)
                 s3 == Asked(s2, front)
                 s4 == [s3 EXCEPT !.actions = Tail(@)]
                 s5 == seq_child_end(s4, front)
             IN  IF Raised(s3) \/ ~wait_is_over(s3, front) THEN s3
                 ELSE IF Raised(s5) \/ Len(s5.actions) = 0 THEN s5
                 ELSE wait_start(s5, Head(s5.actions))

\* sequence_action.update, the body of "while True"
sequence_update_loop(s, front, dt) ==
  LET s1 == Asked(s, front)
  IN  IF Raised(s1) THEN s1
      ELSE IF wait_is_over(s1, front)
        THEN sequence_pop_end_next(s1, front, dt)
        ELSE LET s2 == wait_update(s1, front, dt)
                 s3 == Asked(s2, front)
             IN  IF Raised(s3) THEN s3
                 ELSE IF wait_is_over(s3, front)
                   THEN sequence_pop_end_next(s3, front, dt)
                   ELSE s3

\* sequence_action.update
sequence_update(s, dt) ==
  IF Len(s.actions) = 0
    THEN [s EXCEPT !.exc = "IndexError"]  \* self.actions[0]
    ELSE sequence_update_loop(s, Head(s.actions), dt)

\* sequence_action.is_over
sequence_is_over == Len(actions) = 0

\* ------------------------------------------------------------- the state
\* The composites and the action objects as their constructors leave them.
Constructed ==
  /\ current_time = [a \in Actions |-> 0]
  /\ actions = <<>>
  /\ set_actions = [kind |-> "list", items |-> <<>>, depth |-> 0]
  /\ started = FALSE
  /\ op = <<"init", None, 0>>
  /\ nops = NoOps
  /\ exc = NoExc
  /\ calls = <<>>
  /\ hist = [a \in Actions |-> <<>>]
  /\ addOrder = <<>>
  /\ addedAt = [a \in Actions |-> NoOps]
  /\ endOrder = <<>>

Init ==
  /\ driven \in {"sequence", "set", "list"}
  /\ fault = NoFault
  /\ end_time \in [Actions -> Durations]
  /\ on_end \in EndHooks
  /\ Constructed

\* The state a handler leaves behind.
Leaves(s, o) ==
  /\ current_time' = s.current_time
  /\ actions' = s.actions
  /\ set_actions' = s.set_actions
  /\ started' = s.started
  /\ op' = o
  /\ nops' = IF o[1] \in DOMAIN nops THEN [nops EXCEPT ![o[1]] = @ + 1]
              ELSE nops
  /\ exc' = s.exc
  /\ calls' = s.calls
  /\ hist' = s.hist
  /\ addOrder' = s.addOrder
  /\ addedAt' = s.addedAt
  /\ endOrder' = s.endOrder
  /\ UNCHANGED <<driven, fault, end_time, on_end>>

\* The next action object the host adds: the first one it has not added yet.
HookTargets == {on_end[a] : a \in Actions} \ {None}

HostNext(a) ==
  /\ a \notin HookTargets \cup Range(addOrder)
  /\ \E i \in 1..Len(HostOrder) :
       /\ HostOrder[i] = a
       /\ \A j \in 1..(i - 1) :
            HostOrder[j] \in HookTargets \cup Range(addOrder)

\* ------------------------------------- host calls, sequential composite
\* The host adds each of its action objects once.
SeqAddAction(a) ==
  /\ driven = "sequence"
  /\ HostNext(a)
  /\ Leaves(sequence_add_action(Heap, a), <<"add_action", a, 0>>)

SeqUpdate(dt) ==
  /\ driven = "sequence"
  /\ nops["update"] < MaxUpdates
  /\ Leaves(sequence_update(Heap, dt), <<"update", None, dt>>)

Next ==
  \/ \E a \in Actions : SeqAddAction(a)
  \/ \E dt \in Dts : SeqUpdate(dt)

Spec == Init /\ [][Next]_vars

\* ------------------------------------------------------------ the wrapper
\* action_list.add_action
action_list_add_action(s, a) == sequence_add_action(s, a)

\* action_list.update: self.sequence.update() is called without dt
action_list_update(s, dt) ==
  IF Len(s.actions) = 0 THEN s
  ELSE [s EXCEPT !.exc = "TypeError"]  \* missing argument dt

ListAddAction(a) ==
  /\ driven = "list"
  /\ HostNext(a)
  /\ Leaves(action_list_add_action(Heap, a), <<"add_action", a, 0>>)

ListUpdate(dt) ==
  /\ driven = "list"
  /\ nops["update"] < MaxUpdates
  /\ Leaves(action_list_update(Heap, dt), <<"update", None, dt>>)

ListNext ==
  \/ \E a \in Actions : ListAddAction(a)
  \/ \E dt \in Dts : ListUpdate(dt)

ListSpec == Init /\ [][ListNext]_vars

\* ---------------------------------------------------- parallel composite
\* set_action.actions is the list of __init__ until the first update; update
\* rebinds it to filter(check_continue_and_end, self.actions), an iterator:
\* items are the elements its underlying list iterator has not yet yielded,
\* depth is the number of filter objects wrapped around that iterator.
IsList(s) == s.set_actions.kind = "list"

\* add_action as it would be without the start of a late child.
set_add_action_no_start(s, a) ==
  IF Raised(s) THEN s
  ELSE IF IsList(s)
    THEN [Added(s, a) EXCEPT !.set_actions.items = Append(@, a)]
    ELSE [s EXCEPT !.exc = "AttributeError"]

\* set_action.add_action
set_add_action(s, a) ==
  IF Raised(s) THEN s
  ELSE IF IsList(s)
    THEN LET s1 == [Added(s, a) EXCEPT !.set_actions.items = Append(@, a)]
         IN  IF s1.started THEN wait_start(s1, a) ELSE s1
    ELSE [s EXCEPT !.exc = "AttributeError"]  \* filter has no append

\* end() of a child of the parallel composite: action.end does nothing; a
\* child with an end hook adds its successor to the composite.
set_child_end(s, a) ==
  LET s1 == [Call(s, "end", a, 0) EXCEPT !.endOrder = Append(@, a)]
  IN  IF Raised(s) THEN s
      ELSE IF on_end[a] = None THEN s1
      ELSE set_add_action(s1, on_end[a])

\* set_action.check_continue_and_end: the heap after the call and its result
check_continue_and_end(s, a) ==
  LET s1 == Asked(s, a)
  IN  IF Raised(s1) THEN [s |-> s1, keep |-> FALSE]
      ELSE IF wait_is_over(s1, a)
        THEN [s |-> set_child_end(s1, a), keep |-> FALSE]
        ELSE [s |-> s1, keep |-> TRUE]

\* One element drawn through k nested filter objects, innermost first: each
\* applies check_continue_and_end and passes the element on when it is true.
RECURSIVE filter_pass(_, _, _)
filter_pass(s, a, k) ==
  IF k = 0 THEN [s |-> s, keep |-> TRUE]
  ELSE LET r == check_continue_and_end(s, a)
       IN  IF Raised(r.s) \/ ~r.keep THEN [s |-> r.s, keep |-> FALSE]
           ELSE filter_pass(r.s, a, k - 1)

\* The body of the two for loops of set_action
LoopBody(s, loop, a, dt) ==
  IF loop = "update" THEN wait_update(s, a, dt) ELSE wait_start(s, a)

\* "for action in self.actions" when self.actions is a filter iterator: each
\* element is checked when the loop draws it and is gone from the iterator
\* afterwards.  An exhausted iterator yields nothing however many filter
\* objects wrap it, so its depth is kept at 1.  A StopIteration that leaves
\* the filter function is what the for statement takes for the end of the
\* iterator: the loop ends and the exception is gone.
RECURSIVE filter_for(_, _, _)
filter_for(s, loop, dt) ==
  IF Raised(s) THEN s
  ELSE IF Len(s.set_actions.items) = 0
    THEN [s EXCEPT !.set_actions.depth = 1]
    ELSE LET a == Head(s.set_actions.items)
             s1 == [s EXCEPT !.set_actions.items = Tail(@)]
             r == filter_pass(s1, a, s1.set_actions.depth)
         IN  IF r.s.exc = "StopIteration" THEN [r.s EXCEPT !.exc = NoExc]
             ELSE IF Raised(r.s) THEN r.s
             ELSE IF ~r.keep THEN filter_for(r.s, loop, dt)
             ELSE filter_for(LoopBody(r.s, loop, a, dt), loop, dt)

\* "for action in self.actions: action.start()" when self.actions is a list
RECURSIVE list_for_start(_, _)
list_for_start(s, i) ==
  IF Raised(s) \/ i > Len(s.set_actions.items) THEN s
  ELSE list_for_start(wait_start(s, s.set_actions.items[i]), i + 1)

\* set_action.start
set_start(s) ==
  LET s1 == IF IsList(s) THEN list_for_start(s, 1)
            ELSE filter_for(s, "start", 0)
  IN  IF Raised(s1) THEN s1 ELSE [s1 EXCEPT !.started = TRUE]

\* set_action.update
set_update(s, dt) ==
  LET s1 == [s EXCEPT !.set_actions.kind = "filter",
                      !.set_actions.depth = @ + 1]
  IN  filter_for(s1, "update", dt)

\* set_action.is_over: len() of a filter object raises TypeError
set_is_over_exc == IF set_actions.kind = "list" THEN NoExc ELSE "TypeError"
set_is_over == Len(set_actions.items) = 0

\* --------------------------------------- host calls, parallel composite
ParAddAction(a) ==
  /\ driven = "set"
  /\ HostNext(a)
  /\ Leaves(set_add_action(Heap, a), <<"add_action", a, 0>>)

ParStart ==
  /\ driven = "set"
  /\ nops["start"] < MaxStarts
  /\ Leaves(set_start(Heap), <<"start", None, 0>>)

ParUpdate(dt) ==
  /\ driven = "set"
  /\ nops["update"] < MaxSetUpdates
  /\ Leaves(set_update(Heap, dt), <<"update", None, dt>>)

ParNext ==
  \/ \E a \in Actions : ParAddAction(a)
  \/ ParStart
  \/ \E dt \in Dts : ParUpdate(dt)

ParSpec == Init /\ [][ParNext]_vars

\* ------------------------------------- composites of short wait actions
ShortInit ==
  /\ driven \in {"sequence", "set"}
  /\ fault = NoFault
  /\ end_time \in [Actions -> 0..MaxShortDur]
  /\ on_end \in EndHooks
  /\ Constructed

ShortSeqSpec == ShortInit /\ [][Next]_vars

ShortParSpec == ShortInit /\ [][ParNext]_vars

\* ------------------------------------------------ composites, one child
\* of which fails
ErrInit ==
  /\ driven \in {"sequence", "set"}
  /\ fault \in Faults
  /\ end_time \in [Actions -> 0..MaxFaultDur]
  /\ on_end = [a \in Actions |-> None]
  /\ Constructed

ErrSpec == ErrInit /\ [][Next \/ ParNext]_vars

\* ------------------------------------------------------------ a host loop
\* A host that builds a composite of wait actions and then runs
\*     while not composite.is_over(): composite.update(dt)
\* adding nothing once the loop has begun.
LoopInit ==
  /\ driven \in {"sequence", "set"}
  /\ fault = NoFault
  /\ end_time \in [Actions -> 0..MaxLoopDur]
  /\ on_end = [a \in Actions |-> None]
  /\ Constructed

Building == nops["update"] = 0

BuildSeqAdd(a) == Building /\ SeqAddAction(a)

BuildParAdd(a) == Building /\ ParAddAction(a)

BuildParStart == Building /\ ParStart

\* The loop goes on while the last update returned and is_over() answers
\* false; an exception of either ends the host.
LoopOn ==
  /\ exc = NoExc \/ Building
  /\ \/ driven = "sequence" /\ ~sequence_is_over
     \/ /\ driven = "set"
        /\ started
        /\ set_is_over_exc = NoExc
        /\ ~set_is_over

LoopSeqUpdate(dt) ==
  /\ driven = "sequence"
  /\ LoopOn
  /\ Leaves(sequence_update(Heap, dt), <<"update", None, dt>>)

LoopParUpdate(dt) ==
  /\ driven = "set"
  /\ LoopOn
  /\ Leaves(set_update(Heap, dt), <<"update", None, dt>>)

LoopNext ==
  \/ \E a \in Actions : BuildSeqAdd(a)
  \/ \E a \in Actions : BuildParAdd(a)
  \/ BuildParStart
  \/ \E dt \in Dts : LoopSeqUpdate(dt)
  \/ \E dt \in Dts : LoopParUpdate(dt)

LoopSpec == LoopInit /\ [][LoopNext]_vars

\* ================================================================ claims
\* Indices of the calls of method m made during the last host call.
CallsOf(m) == {i \in 1..Len(calls) : calls[i][1] = m}

\* Indices of the calls of method m that action object a has received.
HistOf(a, m) == {i \in 1..Len(hist[a]) : hist[a][i][1] = m}

\* The dt values action object a has received, in order.
RECURSIVE DtsIn(_)
DtsIn(h) ==
  IF Len(h) = 0 THEN <<>>
  ELSE IF Head(h)[1] = "update" THEN <<Head(h)[2]>> \o DtsIn(Tail(h))
  ELSE DtsIn(Tail(h))

NoHooks == \A a \in Actions : on_end[a] = None

\* ---- C1
\* C1 (as claimed): once N actions have been added to a sequential composite
\* and it has been driven to is_over(), the children have received exactly N
\* start() and N end() calls in total, each child's start() precedes its
\* end(), and the end() calls came in the order of the add_action calls.
C1_StartsEndsInOrder ==
  (Len(addOrder) > 0 /\ sequence_is_over) =>
     /\ \A a \in Range(addOrder) :
          /\ Cardinality(HistOf(a, "start")) = 1
          /\ Cardinality(HistOf(a, "end")) = 1
          /\ \A i \in HistOf(a, "start") : \A j \in HistOf(a, "end") : i < j
     /\ endOrder = addOrder

\* ---- C2
\* The scenario A(duration=2), B(duration=0), C(duration=3), all three
\* queued before the first update, after update(1), update(1): both
\* updates reached A.
C2_Scenario ==
  /\ NoHooks
  /\ end_time = [a \in Actions |->
                   IF a = "A" THEN 2 ELSE IF a = "B" THEN 0 ELSE 3]
  /\ addOrder = <<"A", "B", "C">>
  /\ \A a \in Actions : addedAt[a]["update"] = 0
  /\ DtsIn(hist["A"]) = <<1, 1>>

C2_AfterTwo ==
  C2_Scenario /\ nops["update"] = 2 /\ op = <<"update", None, 1>>

C2_AfterThree ==
  C2_Scenario /\ nops["update"] = 3 /\ op = <<"update", None, 3>>

HostCalls(m) ==
  /\ op'[1] = m
  /\ IF m \in DOMAIN nops THEN nops'[m] = nops[m] + 1 ELSE nops' = nops

\* ---- C3
\* C3 (as claimed): in a sequential composite the first call a child
\* receives is start(), before any update or is_over check, and no child
\* receives two start() calls without an end() in between.
C3_StartedOncePerActivation ==
  \A a \in Actions :
    /\ hist[a] # <<>> => hist[a][1] = <<"start", 0>>
    /\ \A i, j \in HistOf(a, "start") :
         i < j => \E k \in i..j : hist[a][k] = <<"end", 0>>

\* ---- C4
\* C4 (as claimed): an action that a child's end() added to the same
\* sequential composite has received start() by the end of the update call
\* that follows the one that ended the child, and an action that has been
\* popped from the queue receives no further call from the composite.
C4_Step ==
  /\ \A a \in Actions :
       (/\ on_end[a] # None
        /\ op[1] = "update"
        /\ \E i \in CallsOf("end") : calls[i][2] = a
        /\ HostCalls("update"))
       => \E j \in 1..Len(hist'[on_end[a]]) :
            hist'[on_end[a]][j] = <<"start", 0>>
  /\ \A a \in Range(addOrder) \ Range(actions) : hist'[a] = hist[a]

C4_SpawnedStartedPoppedLeftAlone == [][C4_Step]_vars

\* ---- C5
\* C5 (as claimed): update(dt) on a sequential composite whose queue is
\* empty raises nothing, calls no method of any action and leaves the queue
\* empty.
C5_UpdateOnEmptyIsNoOp ==
  [][(Len(actions) = 0 /\ HostCalls("update"))
       => exc' = NoExc /\ calls' = <<>> /\ actions' = <<>>]_vars

\* ---- C6
\* C6 (as claimed): add_action(a) on a sequential composite appends a; on
\* an empty queue it calls a.start() exactly once and returns normally, on
\* a non-empty queue it calls no method of a.
C6_AddActionStartsFirst ==
  [][\A a \in Actions :
       (HostCalls("add_action") /\ op'[2] = a)
       => /\ actions' = Append(actions, a)
          /\ IF Len(actions) = 0
               THEN exc' = NoExc /\ calls' = <<<<"start", a, 0>>>>
               ELSE exc' = NoExc /\ calls' = <<>>]_vars

\* ---- C7
\* The children the parallel composite holds.
Held == Range(set_actions.items)

\* The scenario X(duration=1), Y(duration=5), played by A and B: both
\* added, then start(), then update calls only.
C7_Scenario ==
  /\ NoHooks
  /\ end_time["A"] = 1 /\ end_time["B"] = 5
  /\ addOrder = <<"A", "B">>
  /\ nops["start"] = 1
  /\ hist["A"][1] = <<"start", 0>> /\ hist["B"][1] = <<"start", 0>>

\* C7 (as claimed): a child of a parallel composite that an update(dt)
\* call brings to is_over() is ended and removed by that same call, so
\* is_over() of the composite is true when the update in which its last
\* child finished returns; in the scenario update(1) ends and removes X and
\* leaves Y at time 1 and is_over() false, update(4) ends and removes Y and
\* leaves is_over() true.
C7_EndedByTheUpdateThatFinishes ==
  /\ (started /\ op[1] = "update") =>
       \A i \in CallsOf("update") :
         wait_is_over(Heap, calls[i][2])
           => /\ \E k \in CallsOf("end") : k > i /\ calls[k][2] = calls[i][2]
              /\ calls[i][2] \notin Held
  /\ (started /\ op[1] = "update" /\ exc = NoExc
        /\ CallsOf("update") # {}
        /\ \A a \in Range(addOrder) : wait_is_over(Heap, a))
       => set_is_over_exc = NoExc /\ set_is_over
  /\ (C7_Scenario /\ op = <<"update", None, 1>> /\ nops["update"] = 1)
       => /\ endOrder = <<"A">> /\ "A" \notin Held
          /\ current_time["B"] = 1
          /\ set_is_over_exc = NoExc /\ ~set_is_over
  /\ (C7_Scenario /\ op = <<"update", None, 4>> /\ nops["update"] = 2
        /\ DtsIn(hist["B"]) = <<1, 4>>)
       => /\ endOrder = <<"A", "B">> /\ Held = {}
          /\ set_is_over_exc = NoExc /\ set_is_over

\* ---- C8
\* C8 (as claimed): in one update(dt) call of a started parallel
\* composite every end() comes before every update(dt), no child receives
\* both, no child receives either twice, and every child still held is
\* updated.
C8_EndsBeforeUpdates ==
  (started /\ op[1] = "update") =>
    /\ \A i \in CallsOf("end") : \A j \in CallsOf("update") :
         i < j /\ calls[i][2] # calls[j][2]
    /\ \A m \in {"end", "update"} : \A i, j \in CallsOf(m) :
         calls[i][2] = calls[j][2] => i = j
    /\ exc = NoExc =>
         \A a \in Held : \E j \in CallsOf("update") : calls[j][2] = a

\* ---- C9
\* C9 (as claimed): add_action(a) on a parallel composite calls a.start()
\* at once when the composite has been started and calls no method of a
\* when it has not; a child added before start() is started by start() and
\* receives exactly one start() in total.
C9_Step ==
  /\ \A a \in Actions :
       (HostCalls("add_action") /\ op'[2] = a)
       => IF started
            THEN calls' = <<<<"start", a, 0>>>>
            ELSE calls' = <<>>
  /\ \A a \in Range(addOrder') :
       addedAt'[a]["start"] = 0
       => Cardinality({i \in 1..Len(hist'[a]) :
                         hist'[a][i] = <<"start", 0>>})
            = IF nops'["start"] = 0 THEN 0 ELSE 1

C9_StartOnAddOnlyWhenStarted == [][C9_Step]_vars

\* ---- C10
\* A child that has been started and not ended.
Running(a) == HistOf(a, "start") # {} /\ HistOf(a, "end") = {}

\* C10 (as claimed): a second start() of a parallel composite calls
\* start() on no child that is already running.
C10_NoImplicitRestart ==
  [][(HostCalls("start") /\ nops["start"] >= 1)
       => \A a \in Actions :
            Running(a) => \A i \in 1..Len(calls') :
                            calls'[i] # <<"start", a, 0>>]_vars

\* ---- C11
C11_Step ==
  (HostCalls("start") /\ exc' = NoExc)
  => /\ started'
     /\ \A a \in Held : \E j \in 1..Len(hist'[a]) : hist'[a][j] = <<"start", 0>>

\* C11 (as claimed): when start() of a parallel composite returns, the
\* started flag is set and every child the composite held has had start()
\* called.
C11_StartStartsAllHeld == [][C11_Step]_vars

\* ---- C12
\* C12 (as claimed): every child a parallel composite holds has had start()
\* called and has not had end() called.
C12_HeldAreRunning == \A a \in Held : Running(a)

\* C12 (amended): once the started flag of a parallel composite is set,
\* every child it holds has had start() called and has not had end()
\* called; a child added before start() is held unstarted until then.
C12_HeldAreRunningOnceStarted == started => \A a \in Held : Running(a)

\* C12 witness: a started composite holds a child that was added before
\* start() and a child that was added after it.
C12_Witness ==
  /\ started
  /\ \E a, b \in Held : addedAt[a]["start"] = 0 /\ addedAt[b]["start"] >= 1

\* ---- C13
\* C13 (as claimed): one update(dt) call on a sequential composite whose
\* queued children all have duration zero starts and ends each of them
\* once, updates none and leaves the composite over.
C13_ZeroDurationDrained ==
  (/\ driven = "sequence"
   /\ op[1] = "update" /\ nops["update"] = 1
   /\ addOrder # <<>>
   /\ \A a \in Range(addOrder) : end_time[a] = 0 /\ addedAt[a]["update"] = 0)
  => /\ exc = NoExc
     /\ sequence_is_over
     /\ \A a \in Range(addOrder) :
          /\ Cardinality(HistOf(a, "start")) = 1
          /\ Cardinality(HistOf(a, "end")) = 1
          /\ HistOf(a, "update") = {}

\* ---- C14
\* The host's call left what the handler result s describes.
Effect(s) ==
  /\ actions' = s.actions
  /\ current_time' = s.current_time
  /\ exc' = s.exc
  /\ calls' = s.calls
  /\ hist' = s.hist

C14_Step ==
  /\ \A a \in Actions :
       (HostCalls("add_action") /\ op'[2] = a)
       => Effect(sequence_add_action(Heap, a))
  /\ \A dt \in Dts :
       (HostCalls("update") /\ op'[3] = dt)
       => IF sequence_is_over THEN Effect(Heap)
          ELSE Effect(sequence_update(Heap, dt))

\* C14 (as claimed): add_action of the wrapper has the effect of add_action
\* of its sequence, and update(dt) of the wrapper has the effect of
\* update(dt) of its sequence when the sequence is not over and none when
\* it is over.
C14_WrapperIsItsSequence == [][C14_Step]_vars

\* ---- C15
\* The calls of the last host call that were calls of the failing method.
FailedCalls ==
  {i \in 1..Len(calls) : calls[i][1] = fault[1] /\ calls[i][2] = fault[2]}

\* C15 (as claimed): when a child method raises during a composite's start,
\* add_action or update, that call of the composite raises the same error,
\* and the failing call is the last child call it made: no catch, no retry,
\* no further child call.
C15_ChildErrorPropagates ==
  \A i \in FailedCalls : i = Len(calls) /\ exc = fault[3]

\* ---- C16
\* Call i of action object a lies within an activation: after a start() of
\* a with no end() of a in between.
InActivation(a, i) ==
  \E j \in 1..(i - 1) :
    /\ hist[a][j][1] = "start"
    /\ \A k \in (j + 1)..(i - 1) : hist[a][k][1] # "end"

\* C16 (as claimed): every update(dt) a composite delivers to a child comes
\* after that child's start() and before its end() of the same activation.
C16_UpdateOnlyWhileActive ==
  \A a \in Actions : \A i \in HistOf(a, "update") : InActivation(a, i)

\* ---- C17
\* C17 (as claimed): between the calls of a sequential composite, the head
\* of a non-empty queue has been started and not ended, and no element
\* behind the head has been started.
C17_OnlyHeadIsActive ==
  (driven = "sequence" /\ actions # <<>>)
  => /\ HistOf(Head(actions), "start") # {}
     /\ HistOf(Head(actions), "end") = {}
     /\ \A i \in 2..Len(actions) : HistOf(actions[i], "start") = {}

\* ---- C18
\* The action objects that end() hooks asked the parallel composite to add
\* during the last host call.
AddedFromEnd ==
  {on_end[calls[i][2]] : i \in CallsOf("end")} \ {None}

\* C18 (as claimed): an action added to a started parallel composite from
\* inside a child's end() while update(dt) runs has been started and, when
\* the update returns, is still held or has been ended exactly once.
C18_AddedDuringUpdateNotLost ==
  (started /\ op[1] = "update")
  => \A c \in AddedFromEnd :
       /\ HistOf(c, "start") # {}
       /\ c \in Held \/ Cardinality(HistOf(c, "end")) = 1

\* ---- C19
\* The host's loop has begun.
Looping == nops["update"] >= 1

\* is_over() answers true, and every child has been ended exactly once.
LoopDone ==
  /\ driven = "sequence" => sequence_is_over
  /\ driven = "set" => set_is_over_exc = NoExc /\ set_is_over
  /\ \A a \in Range(addOrder) : Cardinality(HistOf(a, "end")) = 1

\* Every update of the loop adds at least 1 to the time of a child that is
\* not over, so the durations of the children bound the number of updates.
LoopBound == end_time["A"] + end_time["B"] + end_time["C"] + 1

\* C19 (as claimed): a host that calls update(dt), dt > 0, until is_over()
\* on a sequential composite, or on a started parallel composite, of wait
\* actions of finite duration, adding nothing meanwhile, eventually sees
\* is_over() true, and every child has then been ended exactly once.  The
\* loop being finite, this says that it makes at most LoopBound updates and
\* that it stops only where is_over() answers true with every child ended
\* once.
C19_HostLoopEnds ==
  Looping => /\ nops["update"] <= LoopBound
             /\ ~LoopOn => LoopDone

====
